---- MODULE Spec2Model ----
(***************************************************************************)
(* Model of page/DisplayImage.jsx: the RealFaceDetection screen.           *)
(* State is the component's hook state plus the asynchronous calls it has  *)
(* in flight; every handler and every resumption after an await is one     *)
(* action.  A state setter is modelled as the assignment the code issues.  *)
(***************************************************************************)
EXTENDS Integers, Sequences, FiniteSets, TLC

\* ---- bounds ----
MaxDetect == 2      \* detectFaces() calls that pass the guard
MaxCaptures == 2    \* takePictureAsync() calls pending at once

\* ---- values ----
Null == "null"
BlazeFaceModel == "blazeface"
Uris == {"photo-a.jpg", "photo-b.jpg"}
PermissionStatus == {"granted", "denied", "undetermined"}

VARIABLES
    hasPermission,  \* Null | "true" | "false"              (useState, line 13)
    image,          \* Null or a URI                        (line 14)
    detections,     \* sequence of Detection                (line 15)
    isLoading,      \* BOOLEAN                              (line 16)
    isTfReady,      \* BOOLEAN                              (line 18)
    model,          \* Null or BlazeFaceModel               (line 19)
    isMounted,      \* the effect's liveness flag           (line 23)
    initPc,         \* position of the init async function  (lines 24-35)
    captures,       \* number of pending takePictureAsync() (line 45)
    calls,          \* detectFaces() calls in flight        (lines 52-87)
    nDetect,        \* detectFaces() calls started so far
    lastEvent,      \* history: the step just taken, and the URI it returned
    lastOk,         \* history: the call that reached setDetections last, the
                    \* image it read and the predictions it was given
    canvas          \* markers on the overlay's drawing buffer (lines 91-106)

vars == <<hasPermission, image, detections, isLoading, isTfReady, model,
          isMounted, initPc, captures, calls, nDetect, lastEvent, lastOk,
          canvas>>

screenState == <<hasPermission, image, detections, isLoading, isTfReady, model>>

\* ---- raw predictions of the inference service ----
Prediction(k) ==
    [probability |-> <<90 + k>>,
     topLeft     |-> <<k, k + 1>>,
     bottomRight |-> <<k + 10, k + 11>>,
     landmarks   |-> [i \in 1..6 |-> <<10 * k + i, 100 * k + i>>]]

PredictionPool == {Prediction(1), Prediction(2)}

\* estimateFaces returns each face it finds once, in its own order
DistinctSeqs(S) ==
    {s \in UNION {[1..m -> S] : m \in 0..Cardinality(S)} :
        \A i, j \in DOMAIN s : s[i] = s[j] => i = j}

PredictionLists == DistinctSeqs(PredictionPool)

\* ---- lines 65-78: prediction => Detection ----
LandmarkParts == <<"left_eye", "right_eye", "nose", "mouth_left", "mouth_right">>

MapPrediction_shifted(prediction) ==
    [class       |-> "Hursun",
     score       |-> prediction.probability[1],
     boundingBox |-> prediction.topLeft \o prediction.bottomRight,
     landmarks   |-> [j \in 1..5 |->
                        [part |-> LandmarkParts[j],
                         x    |-> prediction.landmarks[j + 1][1],
                         y    |-> prediction.landmarks[j + 1][2]]]]

MapPrediction(prediction) ==
    [class       |-> "Hursun",
     score       |-> prediction.probability[1],
     boundingBox |-> prediction.topLeft \o prediction.bottomRight,
     landmarks   |->
        << [part |-> "left_eye",    x |-> prediction.landmarks[1][1], y |-> prediction.landmarks[1][2]],
           [part |-> "right_eye",   x |-> prediction.landmarks[2][1], y |-> prediction.landmarks[2][2]],
           [part |-> "nose",        x |-> prediction.landmarks[3][1], y |-> prediction.landmarks[3][2]],
           [part |-> "mouth_left",  x |-> prediction.landmarks[4][1], y |-> prediction.landmarks[4][2]],
           [part |-> "mouth_right", x |-> prediction.landmarks[5][1], y |-> prediction.landmarks[5][2]] >>]

\* ---- lines 64-82: the value handed to setDetections ----
DetectedFaces_keepOld(predictions) ==
    IF Len(predictions) > 0
    THEN [i \in 1..Len(predictions) |-> MapPrediction(predictions[i])]
    ELSE detections

DetectedFaces(predictions) ==
    IF Len(predictions) > 0
    THEN [i \in 1..Len(predictions) |-> MapPrediction(predictions[i])]
    ELSE <<>>

\* ---- lines 108-170: what the component renders ----
Screen ==
    IF ~isMounted THEN "unmounted"
    ELSE IF hasPermission = Null THEN "blank"
    ELSE IF hasPermission = "false" THEN "denied"
    ELSE IF image = Null THEN "camera"
    ELSE "review"

CameraViewRendered_noPermissionCheck == isMounted /\ image = Null

CameraViewRendered == Screen = "camera"

AccessDeniedShown == Screen = "denied"

cameraRef == IF CameraViewRendered THEN "CameraView" ELSE "null"

LoadingIndicatorShown == Screen = "review" /\ isLoading

DetectionResultsShown == Screen = "review" /\ Len(detections) > 0

NoFaceShown == Screen = "review" /\ ~(Len(detections) > 0) /\ ~isLoading

\* ---- history records ----
Event(op, uri) == [op |-> op, uri |-> uri]

Init ==
    /\ hasPermission = Null
    /\ image = Null
    /\ detections = <<>>
    /\ isLoading = FALSE
    /\ isTfReady = FALSE
    /\ model = Null
    /\ isMounted = TRUE
    /\ initPc = "permission"
    /\ captures = 0
    /\ calls = {}
    /\ nDetect = 0
    /\ lastEvent = Event("mount", Null)
    /\ lastOk = [id |-> 0, image |-> Null, preds |-> <<>>]
    /\ canvas = {}

\* ---- lines 22-41: the mount effect ----
Guarded_unchecked(new, old) == new

Guarded(new, old) == IF isMounted THEN new ELSE old

PermissionResolved(status) ==
    /\ initPc = "permission"
    /\ initPc' = "tfReady"
    /\ hasPermission' = Guarded(IF status = "granted" THEN "true" ELSE "false", hasPermission)
    /\ lastEvent' = Event("permissionResolved", Null)
    /\ UNCHANGED <<canvas, image, detections, isLoading, isTfReady, model, isMounted,
                   captures, calls, nDetect, lastOk>>

TfReady ==
    /\ initPc = "tfReady"
    /\ initPc' = "load"
    /\ isTfReady' = Guarded(TRUE, isTfReady)
    /\ lastEvent' = Event("tfReady", Null)
    /\ UNCHANGED <<canvas, hasPermission, image, detections, isLoading, model, isMounted,
                   captures, calls, nDetect, lastOk>>

ModelLoaded_anyOrder ==
    /\ initPc \in {"permission", "tfReady", "load"}
    /\ initPc' = IF initPc = "load" THEN "done" ELSE initPc
    /\ model' = Guarded(BlazeFaceModel, model)
    /\ lastEvent' = Event("modelLoaded", Null)
    /\ UNCHANGED <<canvas, hasPermission, image, detections, isLoading, isTfReady, isMounted,
                   captures, calls, nDetect, lastOk>>

ModelLoaded ==
    /\ initPc = "load"
    /\ initPc' = "done"
    /\ model' = Guarded(BlazeFaceModel, model)
    /\ lastEvent' = Event("modelLoaded", Null)
    /\ UNCHANGED <<canvas, hasPermission, image, detections, isLoading, isTfReady, isMounted,
                   captures, calls, nDetect, lastOk>>

\* any of the three awaited promises rejects: the async function ends there
InitRejected ==
    /\ initPc \in {"permission", "tfReady", "load"}
    /\ initPc' = "rejected"
    /\ lastEvent' = Event("initRejected", Null)
    /\ UNCHANGED <<canvas, hasPermission, image, detections, isLoading, isTfReady, model,
                   isMounted, captures, calls, nDetect, lastOk>>

Unmount ==
    /\ isMounted
    /\ isMounted' = FALSE
    /\ lastEvent' = Event("unmount", Null)
    /\ UNCHANGED <<canvas, hasPermission, image, detections, isLoading, isTfReady, model,
                   initPc, captures, calls, nDetect, lastOk>>

\* ---- lines 43-48: takePicture ----
TakePicture ==
    /\ isMounted
    /\ IF cameraRef # "null"
       THEN /\ captures < MaxCaptures
            /\ captures' = captures + 1
            /\ lastEvent' = Event("takePicture", Null)
       ELSE /\ captures' = captures
            /\ lastEvent' = Event("takePicture", Null)
    /\ UNCHANGED <<canvas, hasPermission, image, detections, isLoading, isTfReady, model,
                   isMounted, initPc, calls, nDetect, lastOk>>

CaptureResolved_keepsFirst(uri) ==
    /\ captures > 0
    /\ captures' = captures - 1
    /\ image' = IF image = Null THEN uri ELSE image
    /\ lastEvent' = Event("captureResolved", uri)
    /\ UNCHANGED <<canvas, hasPermission, detections, isLoading, isTfReady, model,
                   isMounted, initPc, calls, nDetect, lastOk>>

CaptureResolved(uri) ==
    /\ captures > 0
    /\ captures' = captures - 1
    /\ image' = uri
    /\ lastEvent' = Event("captureResolved", uri)
    /\ UNCHANGED <<canvas, hasPermission, detections, isLoading, isTfReady, model,
                   isMounted, initPc, calls, nDetect, lastOk>>

CaptureRejected ==
    /\ captures > 0
    /\ captures' = captures - 1
    /\ lastEvent' = Event("captureRejected", Null)
    /\ UNCHANGED <<canvas, hasPermission, image, detections, isLoading, isTfReady, model,
                   isMounted, initPc, calls, nDetect, lastOk>>

\* ---- line 138: "Capture Another Photo" ----
Reset_clearsModel ==
    /\ Screen = "review"
    /\ image' = Null
    /\ model' = Null
    /\ lastEvent' = Event("reset", Null)
    /\ UNCHANGED <<canvas, hasPermission, detections, isLoading, isTfReady,
                   isMounted, initPc, captures, calls, nDetect, lastOk>>

Reset ==
    /\ Screen = "review"
    /\ image' = Null
    /\ lastEvent' = Event("reset", Null)
    /\ UNCHANGED <<canvas, hasPermission, detections, isLoading, isTfReady, model,
                   isMounted, initPc, captures, calls, nDetect, lastOk>>

\* ---- lines 50-89: detectFaces ----
DetectGuard_imageOnly == image # Null

DetectGuard_runtimeReady == image # Null /\ (model # Null \/ isTfReady)

DetectGuard == image # Null /\ model # Null

DetectFaces ==
    /\ isMounted
    /\ IF DetectGuard
       THEN /\ nDetect < MaxDetect
            /\ nDetect' = nDetect + 1
            /\ isLoading' = TRUE
            /\ calls' = calls \cup {[id |-> nDetect + 1, image |-> image,
                                     pre |-> detections, pc |-> "read"]}
            /\ lastEvent' = Event("detectFaces", Null)
       ELSE /\ UNCHANGED <<nDetect, isLoading, calls>>
            /\ lastEvent' = Event("detectFaces", Null)
    /\ UNCHANGED <<canvas, hasPermission, image, detections, isTfReady, model,
                   isMounted, initPc, captures, lastOk>>

\* line 54 resolves, lines 57-59 succeed, line 62 is issued
ReadResolved(c) ==
    /\ c \in calls /\ c.pc = "read"
    /\ calls' = (calls \ {c}) \cup {[c EXCEPT !.pc = "estimate"]}
    /\ lastEvent' = Event("readResolved", Null)
    /\ UNCHANGED <<canvas, hasPermission, image, detections, isLoading, isTfReady, model,
                   isMounted, initPc, captures, nDetect, lastOk>>

\* lines 83-87: catch, then finally
Throw_noFinally(c, op) ==
    /\ calls' = calls \ {c}
    /\ isLoading' = isLoading
    /\ lastEvent' = Event(op, Null)
    /\ UNCHANGED <<canvas, hasPermission, image, detections, isTfReady, model,
                   isMounted, initPc, captures, nDetect, lastOk>>

Throw_clears(c, op) ==
    /\ calls' = calls \ {c}
    /\ isLoading' = FALSE
    /\ detections' = <<>>
    /\ lastEvent' = Event(op, Null)
    /\ UNCHANGED <<canvas, hasPermission, image, isTfReady, model,
                   isMounted, initPc, captures, nDetect, lastOk>>

Throw(c, op) ==
    /\ calls' = calls \ {c}
    /\ isLoading' = FALSE
    /\ lastEvent' = Event(op, Null)
    /\ UNCHANGED <<canvas, hasPermission, image, detections, isTfReady, model,
                   isMounted, initPc, captures, nDetect, lastOk>>

ReadRejected(c) ==
    /\ c \in calls /\ c.pc = "read"
    /\ Throw(c, "readRejected")

DecodeThrew(c) ==
    /\ c \in calls /\ c.pc = "read"
    /\ Throw(c, "decodeThrew")

EstimateRejected(c) ==
    /\ c \in calls /\ c.pc = "estimate"
    /\ Throw(c, "estimateRejected")

\* line 62 resolves; lines 64-82, then finally
EstimateResolved_latestStartedWins(c, predictions) ==
    /\ c \in calls /\ c.pc = "estimate"
    /\ calls' = calls \ {c}
    /\ detections' = IF c.id = nDetect THEN DetectedFaces(predictions) ELSE detections
    /\ isLoading' = FALSE
    /\ lastEvent' = Event("estimateResolved", Null)
    /\ lastOk' = [id |-> c.id, image |-> c.image, preds |-> predictions]
    /\ UNCHANGED <<canvas, hasPermission, image, isTfReady, model,
                   isMounted, initPc, captures, nDetect>>

EstimateResolved_keepsLoading(c, predictions) ==
    /\ c \in calls /\ c.pc = "estimate"
    /\ calls' = calls \ {c}
    /\ detections' = DetectedFaces(predictions)
    /\ isLoading' = isLoading
    /\ lastEvent' = Event("estimateResolved", Null)
    /\ lastOk' = [id |-> c.id, image |-> c.image, preds |-> predictions]
    /\ UNCHANGED <<canvas, hasPermission, image, isTfReady, model,
                   isMounted, initPc, captures, nDetect>>

EstimateResolved(c, predictions) ==
    /\ c \in calls /\ c.pc = "estimate"
    /\ calls' = calls \ {c}
    /\ detections' = DetectedFaces(predictions)
    /\ isLoading' = FALSE
    /\ lastEvent' = Event("estimateResolved", Null)
    /\ lastOk' = [id |-> c.id, image |-> c.image, preds |-> predictions]
    /\ UNCHANGED <<canvas, hasPermission, image, isTfReady, model,
                   isMounted, initPc, captures, nDetect>>

DetectionStep ==
    \E c \in calls :
        \/ ReadResolved(c)
        \/ ReadRejected(c)
        \/ DecodeThrew(c)
        \/ EstimateRejected(c)
        \/ \E predictions \in PredictionLists : EstimateResolved(c, predictions)

Next ==
    \/ \E status \in PermissionStatus : PermissionResolved(status)
    \/ TfReady
    \/ ModelLoaded
    \/ InitRejected
    \/ Unmount
    \/ TakePicture
    \/ \E uri \in Uris : CaptureResolved(uri)
    \/ CaptureRejected
    \/ Reset
    \/ DetectFaces
    \/ \E c \in calls : ReadResolved(c)
    \/ \E c \in calls : ReadRejected(c)
    \/ \E c \in calls : DecodeThrew(c)
    \/ \E c \in calls : EstimateRejected(c)
    \/ \E c \in calls : \E predictions \in PredictionLists : EstimateResolved(c, predictions)

Spec == Init /\ [][Next]_vars

\* the storage and inference services eventually answer every request
LiveSpec == Spec /\ WF_vars(DetectionStep)

\* ---- lines 91-106: onContextCreate ----
\* The GLView that would call it is commented out (lines 129-133), so no
\* action of Spec draws; RenderSpec applies the function to every sample
\* detection set and every sample content of the drawing buffer.
Markers(dets) ==
    {[x |-> dets[i].landmarks[j].x, y |-> dets[i].landmarks[j].y,
      radius |-> 5, fillStyle |-> "red"] :
        i \in DOMAIN dets, j \in 1..5}

DrawOverlay(buffer, dets) ==
    IF Len(dets) > 0 THEN Markers(dets) ELSE buffer

OnContextCreate ==
    /\ canvas' = DrawOverlay(canvas, detections)
    /\ lastEvent' = Event("onContextCreate", Null)
    /\ UNCHANGED <<hasPermission, image, detections, isLoading, isTfReady, model,
                   isMounted, initPc, captures, calls, nDetect, lastOk>>

SampleDetections == {DetectedFaces(predictions) : predictions \in PredictionLists}

SampleBuffers == SUBSET Markers(DetectedFaces(<<Prediction(1)>>))

RenderInit ==
    /\ hasPermission = "true"
    /\ image \in Uris
    /\ detections \in SampleDetections
    /\ isLoading = FALSE
    /\ isTfReady = TRUE
    /\ model = BlazeFaceModel
    /\ isMounted = TRUE
    /\ initPc = "done"
    /\ captures = 0
    /\ calls = {}
    /\ nDetect = 0
    /\ lastEvent = Event("mount", Null)
    /\ lastOk = [id |-> 0, image |-> Null, preds |-> <<>>]
    /\ canvas \in SampleBuffers

RenderNext == OnContextCreate

RenderSpec == RenderInit /\ [][RenderNext]_vars

\* ======================= properties =======================

FailOps == {"readRejected", "decodeThrew", "estimateRejected"}

ExitOps == FailOps \cup {"estimateResolved"}

\* C1: after reset() (the "Capture Another Photo" press) the stored image is
\* cleared and the detection set is empty, whatever it was before the press.
C1_ResetClearsImageAndDetections ==
    lastEvent.op = "reset" => (image = Null /\ detections = <<>>)

\* C2: while permission is denied or unknown the camera view is not rendered;
\* once denied, permission stays denied, the camera view is never rendered
\* afterwards and the mounted screen shows the access-denied message.
C2_DeniedNeverShowsCamera ==
    /\ [](hasPermission # "true" => ~CameraViewRendered)
    /\ []((hasPermission = "false" /\ isMounted) => AccessDeniedShown)
    /\ [][hasPermission = "false" =>
            (hasPermission' = "false" /\ ~CameraViewRendered')]_vars

C2_Witness ==
    /\ hasPermission = "false"
    /\ model # Null
    /\ lastEvent.op = "takePicture"
    /\ AccessDeniedShown

\* C3: a detectFaces() invocation made while no image is stored or the model
\* is not loaded changes nothing: the loading flag, the set of calls in
\* flight, the image, the detection set and the model keep their values.
C3_DetectFacesNoop ==
    [][(lastEvent' = Event("detectFaces", Null) /\ (image = Null \/ model = Null)) =>
            UNCHANGED <<isLoading, calls, nDetect, image, detections, model>>]_vars

C3_Witness ==
    /\ lastEvent.op = "detectFaces"
    /\ nDetect = 0
    /\ Screen = "review"
    /\ model = Null
    /\ ~isLoading
    /\ calls = {}

\* C4 as stated: when a detectFaces() call throws, at its exit the loading flag
\* is false and the detection set equals the set at the call's start, for
\* every interleaving with other calls.
C4_DetectionsAsAtCallStart ==
    [][\A c \in calls :
            (lastEvent'.op \in FailOps /\ calls' = calls \ {c}) =>
                (isLoading' = FALSE /\ detections' = c.pre)]_vars

\* C4 amended: the step in which a detectFaces() call throws leaves the
\* loading flag false and does not touch the detection set (it is neither
\* cleared nor replaced by the failing call).
C4_ThrowLeavesDetections ==
    [][lastEvent'.op \in FailOps =>
            (isLoading' = FALSE /\ detections' = detections)]_vars

C4_Witness ==
    /\ lastEvent.op \in FailOps
    /\ Len(detections) > 0
    /\ lastOk.id # 0
    /\ ~isLoading

\* C5: every detectFaces() call that passed the guard leaves the loading flag
\* false when it exits, by success or by failure; and when storage and
\* inference answer, a true loading flag is eventually false.
C5_LoadingClearedOnExit ==
    /\ [](lastEvent.op \in ExitOps => ~isLoading)
    /\ (isLoading ~> ~isLoading)

C5_Witness ==
    /\ lastEvent.op \in FailOps
    /\ ~isLoading
    /\ calls # {}

\* C6: a run whose inference returned zero predictions leaves the detection
\* set empty, and in review view with an empty detection set the "No Face
\* detected" message is shown exactly when the loading flag is false.
C6_NoFaceMessage ==
    /\ (lastEvent.op = "estimateResolved" /\ Len(lastOk.preds) = 0)
            => detections = <<>>
    /\ (Screen = "review" /\ detections = <<>>) => (NoFaceShown <=> ~isLoading)

C6_Witness ==
    /\ lastEvent.op = "estimateResolved"
    /\ Len(lastOk.preds) = 0
    /\ nDetect > 1
    /\ NoFaceShown

\* C7: a run whose inference returned N >= 1 predictions replaces the
\* detection set by exactly N detections in return order, each with exactly
\* the 5 landmarks left_eye, right_eye, nose, mouth_left, mouth_right taken
\* from the prediction's landmarks 0..4.
C7_DetectionsMapped ==
    (lastEvent.op = "estimateResolved" /\ Len(lastOk.preds) >= 1) =>
        /\ Len(detections) = Len(lastOk.preds)
        /\ \A i \in 1..Len(lastOk.preds) :
            /\ Len(detections[i].landmarks) = 5
            /\ \A j \in 1..5 :
                detections[i].landmarks[j] =
                    [part |-> LandmarkParts[j],
                     x    |-> lastOk.preds[i].landmarks[j][1],
                     y    |-> lastOk.preds[i].landmarks[j][2]]

C7_Witness ==
    /\ lastEvent.op = "estimateResolved"
    /\ Len(lastOk.preds) = 2
    /\ lastOk.preds[1] # lastOk.preds[2]
    /\ Len(detections) = 2

\* C8: exactly one of {no image, image with no detections yet, image with
\* detections, image with loading in progress} holds; the loading indicator
\* and a non-empty displayed detection set never appear together, and a
\* non-empty detection set never coexists with no stored image.
C8_ExactlyOneDescription ==
    LET noImage   == image = Null
        noDetsYet == image # Null /\ Len(detections) = 0 /\ ~isLoading
        withDets  == image # Null /\ Len(detections) > 0
        loading   == image # Null /\ isLoading
        count(b)  == IF b THEN 1 ELSE 0
    IN  /\ count(noImage) + count(noDetsYet) + count(withDets) + count(loading) = 1
        /\ ~(LoadingIndicatorShown /\ DetectionResultsShown)
        /\ ~(Len(detections) > 0 /\ image = Null)

\* C9: once no detection call is in flight, the detection set is the result
\* of the call that completed last, whichever call was started last.
C9_LastCompletedWins ==
    (calls = {} /\ lastOk.id # 0) => detections = DetectedFaces(lastOk.preds)

C9_Witness ==
    /\ calls = {}
    /\ lastEvent.op = "estimateResolved"
    /\ lastOk.id < nDetect
    /\ Len(detections) > 0

\* C10: after unmount no async result changes the screen state.
C10_NoUpdateAfterUnmount ==
    [][~isMounted => UNCHANGED screenState]_vars

\* C11: a capture that resolves stores exactly the returned URI as the image,
\* whatever was stored before, and a screen showing the camera view shows the
\* review view afterwards; a rejected capture, and a takePicture() made with
\* no bound camera, leave the stored image as it was.
C11_CaptureStoresReturnedImage ==
    /\ [](lastEvent.op = "captureResolved" =>
            (image = lastEvent.uri /\ (isMounted => Screen = "review")))
    /\ [][(lastEvent'.op = "captureResolved" /\ Screen = "camera") =>
            Screen' = "review"]_vars
    /\ [][(\/ lastEvent'.op = "captureRejected"
           \/ (lastEvent'.op = "takePicture" /\ cameraRef = "null")) =>
            (image' = image /\ captures' <= captures)]_vars

C11_Witness ==
    /\ lastEvent = Event("captureResolved", "photo-b.jpg")
    /\ image = "photo-b.jpg"
    /\ lastOk.image = "photo-a.jpg"
    /\ \E c \in calls : c.image = "photo-a.jpg"
    /\ Screen = "review"

\* C12: rendering the overlay is clear-then-redraw: after rendering a
\* detection set the buffer holds exactly the markers of its landmarks (5 per
\* detection, none when the set is empty) and nothing drawn earlier, and
\* rendering the same set again gives the same buffer.
C12_RenderClearsThenRedraws ==
    lastEvent.op = "onContextCreate" =>
        /\ canvas = Markers(detections)
        /\ Cardinality(canvas) = 5 * Len(detections)
        /\ DrawOverlay(canvas, detections) = canvas

\* C13: whenever a detectFaces() call that passed the guard is still
\* unresolved the loading flag is true, also when calls overlap and one of
\* them finishes first.
C13_InFlightImpliesLoading ==
    calls # {} => isLoading

\* C14: the loading flag is true only while some detectFaces() call is in
\* flight; it is false initially and whenever no call is pending.
C14_LoadingImpliesInFlight ==
    isLoading => calls # {}

C14_Witness ==
    /\ isLoading
    /\ lastEvent.op = "detectFaces"
    /\ nDetect = 2
    /\ Cardinality(calls) = 1

\* C15 as stated: permission request, runtime init and model load are
\* independent, so while the permission request or the runtime init is still
\* unresolved the model load can complete.
C15_ModelLoadIndependent ==
    initPc \in {"permission", "tfReady"} => ENABLED ModelLoaded

\* C15 amended: the three are sequenced; the runtime-ready flag is set only
\* after the permission response, the model only after both, and once one of
\* them has rejected the model is never loaded.
C15_InitSequenced ==
    /\ [](isTfReady => hasPermission # Null)
    /\ [](model # Null => (isTfReady /\ hasPermission # Null))
    /\ [](initPc \in {"permission", "tfReady"} => model = Null)
    /\ [][initPc = "rejected" => (initPc' = "rejected" /\ model' = model)]_vars

C15_Witness ==
    /\ model # Null
    /\ isTfReady
    /\ hasPermission = "false"
    /\ initPc = "done"

\* C16: after an unmount in the middle of initialization, the permission
\* response, the runtime-ready signal and the loaded model that arrive later
\* are discarded: permission state, runtime-ready flag and model keep the
\* values they had at unmount.
C16_InitResultsDiscardedAfterUnmount ==
    [][~isMounted => UNCHANGED <<hasPermission, isTfReady, model>>]_vars

C16_Witness ==
    /\ ~isMounted
    /\ initPc = "done"
    /\ hasPermission = "true"
    /\ ~isTfReady
    /\ model = Null

\* C17: once the model load or a step sequenced before it has rejected, the
\* model stays null, the loading flag is never true, no detection call is ever
\* started and the detection set never changes, whatever the user presses.
C17_RejectedInitDisablesDetection ==
    /\ [](initPc = "rejected" =>
            (model = Null /\ ~isLoading /\ calls = {} /\ nDetect = 0
             /\ detections = <<>>))
    /\ [][initPc = "rejected" => initPc' = "rejected"]_vars

C17_Witness ==
    /\ initPc = "rejected"
    /\ isTfReady
    /\ Screen = "review"
    /\ lastEvent.op = "detectFaces"

\* C18: the model handle is written at most once: once non-null it never
\* changes, and no step other than the resolution of the model load (no
\* capture, reset or detection step) modifies it.
C18_ModelWrittenOnce ==
    /\ [][model # Null => model' = model]_vars
    /\ [][lastEvent'.op # "modelLoaded" => model' = model]_vars

C18_Witness ==
    /\ model = BlazeFaceModel
    /\ nDetect = MaxDetect
    /\ lastOk.id # 0
    /\ lastEvent.op = "reset"

\* C19: whenever the review view shows a non-empty detection set, that set
\* was computed from the image now stored and displayed.
C19_DetectionsOfDisplayedImage ==
    DetectionResultsShown => lastOk.image = image
====
